---- MODULE Spec2Model ----
(***************************************************************************)
(* State-machine model of kserve's ModelServer                             *)
(* (python/kserve/kserve/model_server.py): construction, the steps of the  *)
(* coroutine start(), the two registration methods, the application built  *)
(* by create_application() and the requests it dispatches while the        *)
(* listener runs.                                                          *)
(*                                                                         *)
(* ModelRepository, DataPlane and ModelRepositoryExtension are imported by *)
(* model_server.py but their code is not part of the sources at hand; the  *)
(* operators that stand for them follow the written specification          *)
(* (sections 4.1 - 4.3).                                                   *)
(***************************************************************************)
EXTENDS Integers, Sequences, FiniteSets, TLC

\* ---------------------------------------------------------------- bounds
\* Model objects the caller has at hand.
MaxModels == 4
\* Longest initial collection handed to start().
MaxLen == 2
\* Deployment objects the caller has at hand.
MaxDeps == 1
\* Largest configured worker count.
MaxWorkers == 2

\* ------------------------------------------------------------ the values
ModelIds == 1..MaxModels
DepIds == 1..MaxDeps
WorkerIds == 1..MaxWorkers

\* Names a request path or a dict key can carry.
ModelNames == {"a", "b"}
AllNames == ModelNames \cup {""}

\* model.name of the Model objects: two share the name "a", one has no name.
ModelName(id) ==
    CASE id % 4 = 1 -> "a"
      [] id % 4 = 2 -> "b"
      [] id % 4 = 3 -> "a"
      [] OTHER      -> ""

\* model.enable_latency_logging of the Model objects as the caller hands them
\* over: off on the odd ones, on on the even ones.
ModelEll0(id) == id % 2 = 0

\* Values held by the registry.  0 is "no entry"; a Model object is its id;
\* the handle of Deployment d and the handle built by a lifecycle load of a
\* name are kept apart from the Model ids.
NoModel == 0
RemoteBase == 100
LoadedBase == 200
RemoteHandle(d) == RemoteBase + d
LoadedHandle(n) == IF n = "a" THEN LoadedBase + 1 ELSE LoadedBase + 2

\* An element of a list that is not a Model, a dict value that is not a
\* Deployment.
NotAModel == 0
NotADeployment == 0

\* ModelRepository instances.  DefaultRepo is the instance the default
\* argument of __init__ builds; the others are instances private to a worker.
DefaultRepo == 0
RepoIds == 0..MaxWorkers
EmptyRepo == [n \in AllNames |-> NoModel]

VARIABLES
    enable_latency_logging, \* self.enable_latency_logging
    workers,                \* self.workers
    registered_models,      \* self.registered_models: a ModelRepository instance
    repos,                  \* contents of every ModelRepository instance
    modelEll,               \* model.enable_latency_logging of each Model object
    server,                 \* self._server: "None", "created", "serving", "exited"
    app,                    \* the application create_application() returned
    pc,                     \* position of the coroutine start()
    models,                 \* the argument of start()
    idx,                    \* position of start()'s for loop
    handle,                 \* the local variable handle of start()
    err,                    \* what start() raised
    log,                    \* calls start() has made, in order
    lastReq,                \* the latest operation on the registry and its result
    regAtStart,             \* registry as it was when start() was called
    lastWrite,              \* per name, the handle of the latest register (NoModel after unregister)
    http_port,              \* self.http_port
    grpc_port,              \* self.grpc_port
    other,                  \* a second ModelServer of the same process
    argv,                   \* the command line the parser is given
    args,                   \* args, as parser.parse_known_args() returns it
    request,                \* an HTTP request: its method and its path
    routed                  \* what the application's router did with the request

vars == <<enable_latency_logging, workers, registered_models, repos, modelEll,
          server, app, pc, models, idx, handle, err, log, lastReq, regAtStart,
          lastWrite, http_port, grpc_port, other, argv, args, request, routed>>

\* What the steps of one ModelServer's start() and of its requests leave alone.
outerVars == <<http_port, grpc_port, other, argv, args, request, routed>>

\* -------------------------------------------------- initial collections
ListItem(v) == [key |-> "", val |-> v]
DictItem(k, v) == [key |-> k, val |-> v]

SeqsUpTo(S, n) == UNION {[1..k -> S] : k \in 0..n}

Lists ==
    {[type |-> "list", items |-> s] :
        s \in SeqsUpTo({ListItem(v) : v \in ModelIds \cup {NotAModel}}, MaxLen)}

\* A dict has distinct keys; it is iterated in insertion order.
DictsOver(K) ==
    {[type |-> "dict", items |-> s] :
        s \in {q \in SeqsUpTo({DictItem(k, v) : k \in K,
                                               v \in DepIds \cup {NotADeployment}}, MaxLen) :
                 \A i, j \in DOMAIN q : q[i].key = q[j].key => i = j}}

Dicts == DictsOver(ModelNames)

Others == {[type |-> "other", items |-> <<>>]}

Collections == Lists \cup Dicts \cup Others

NoCollection == [type |-> "none", items |-> <<>>]

IsModel(v) == v \in ModelIds
IsDeployment(v) == v \in DepIds

NoApp == [built |-> FALSE, dataplane |-> DefaultRepo, extension |-> DefaultRepo]
NoReq == [op |-> "none", name |-> "", res |-> "none", raised |-> "none"]
Req(o, n, r) == [op |-> o, name |-> n, res |-> r, raised |-> "none"]
Ev(e, k, v) == [ev |-> e, key |-> k, val |-> v]

\* ------------------------------------------------ ModelRepository (4.1)
\* register: inserts or replaces the entry of the model's name.
update(rs, r, id) == [rs EXCEPT ![r][ModelName(id)] = id]

\* register of a handle under an explicit name.
update_handle(rs, r, n, h) == [rs EXCEPT ![r][n] = h]

\* unregister: removes the entry if present.
Unregister(rs, r, n) == [rs EXCEPT ![r][n] = NoModel]

\* lookup: the entry of the name, NoModel when there is none.
Lookup(rs, r, n) == rs[r][n]

\* ------------------------------------------------------- ModelServer
\* register_model raises when model.name is empty or missing.
RegisterModelRaises(id) == ModelName(id) = ""

\* register_model as it would be if an already registered name were kept.
register_model_KeepFirst(rs, id) ==
    IF Lookup(rs, registered_models, ModelName(id)) # NoModel
      THEN rs
      ELSE update(rs, registered_models, id)

\* register_model, past its check: self.registered_models.update(model).
register_model(rs, id) == update(rs, registered_models, id)

\* register_model_handle as it would be if it rebuilt the mapping around the
\* one new entry.
register_model_handle_Rebuild(rs, n, h) ==
    [rs EXCEPT ![registered_models] = [m \in AllNames |-> IF m = n THEN h ELSE NoModel]]

\* register_model_handle: self.registered_models.update_handle(name, handle).
register_model_handle(rs, n, h) == update_handle(rs, registered_models, n, h)

\* create_application as it would be if the DataPlane were built on a
\* ModelRepository of its own.
create_application_OwnRepo ==
    [built |-> TRUE, dataplane |-> DefaultRepo + 1, extension |-> registered_models]

\* create_application: the DataPlane and the ModelRepositoryExtension are
\* both built on self.registered_models.
create_application ==
    [built |-> TRUE, dataplane |-> registered_models, extension |-> registered_models]

\* The workers as they would be if each were handed an application built on
\* a ModelRepository of its own.
WorkerApp_Private(w) == [built |-> app.built, dataplane |-> w, extension |-> w]

\* uvicorn.Config is given the one application object and the worker count:
\* every serving worker dispatches through that application.
WorkerApp(w) == app

Items == models.items
AllDeployments == \A i \in DOMAIN Items : IsDeployment(Items[i].val)

ErrNotModel == "Model type should be 'Model'"
ErrNotDeployment == "Model type should be RayServe Deployment"
ErrUnknown == "Unknown model collection types"
ErrNoName == "Failed to register model, model.name must be provided."

DEFAULT_HTTP_PORT == 8080
DEFAULT_GRPC_PORT == 8081
\* The port serve.start() is given.
RayServePort == 9071

NoOther == [made |-> FALSE, registered_models |-> DefaultRepo]
NoArgv == [given |-> FALSE, flag |-> <<>>]
NoArgs == [parsed |-> FALSE, error |-> FALSE, enable_latency_logging |-> FALSE]
NoRequest == [method |-> "", path |-> <<>>]
NoRoute == [status |-> "none", handler |-> "none"]

\* Nothing has been parsed or routed.
PureIdle ==
    /\ argv = NoArgv
    /\ args = NoArgs
    /\ request = NoRequest
    /\ routed = NoRoute

\* A ModelServer as __init__ leaves it, on the default ModelRepository.
Constructed ==
    /\ registered_models = DefaultRepo
    /\ repos = [r \in RepoIds |-> EmptyRepo]
    /\ modelEll = [id \in ModelIds |-> ModelEll0(id)]
    /\ server = "None"
    /\ app = NoApp
    /\ pc = "idle"
    /\ models = NoCollection
    /\ idx = 1
    /\ handle = NoModel
    /\ err = "none"
    /\ log = <<>>
    /\ lastReq = NoReq
    /\ regAtStart = EmptyRepo
    /\ lastWrite = EmptyRepo
    /\ other = NoOther

Init ==
    /\ Constructed
    /\ enable_latency_logging \in BOOLEAN
    /\ workers \in WorkerIds
    /\ http_port = DEFAULT_HTTP_PORT
    /\ grpc_port = DEFAULT_GRPC_PORT
    /\ PureIdle

\* start() as it would be without the call of serve.start(): a dict of
\* Deployments goes straight to its loop.
Start_NoRuntime(m) ==
    /\ pc = "idle"
    /\ models' = m
    /\ idx' = 1
    /\ regAtStart' = repos[registered_models]
    /\ IF m.type = "list"
         THEN pc' = "list_loop" /\ err' = err
         ELSE IF m.type = "dict"
           THEN IF \A i \in DOMAIN m.items : IsDeployment(m.items[i].val)
                  THEN pc' = "dict_loop" /\ err' = err
                  ELSE pc' = "failed" /\ err' = ErrNotDeployment
           ELSE pc' = "failed" /\ err' = ErrUnknown
    /\ UNCHANGED <<enable_latency_logging, workers, registered_models, repos,
                   modelEll, server, app, handle, log, lastReq, lastWrite>>
    /\ UNCHANGED outerVars

\* start(models): entry and the isinstance tests on the collection.
Start(m) ==
    /\ pc = "idle"
    /\ models' = m
    /\ idx' = 1
    /\ regAtStart' = repos[registered_models]
    /\ IF m.type = "list"
         THEN pc' = "list_loop" /\ err' = err
         ELSE IF m.type = "dict"
           THEN IF \A i \in DOMAIN m.items : IsDeployment(m.items[i].val)
                  THEN pc' = "serve_start" /\ err' = err
                  ELSE pc' = "failed" /\ err' = ErrNotDeployment
           ELSE pc' = "failed" /\ err' = ErrUnknown
    /\ UNCHANGED <<enable_latency_logging, workers, registered_models, repos,
                   modelEll, server, app, handle, log, lastReq, lastWrite>>
    /\ UNCHANGED outerVars

\* The loop pass as it would be if an element that is not a Model were
\* skipped instead of raising.
ListRegister_SkipBad ==
    /\ pc = "list_loop"
    /\ idx <= Len(Items)
    /\ LET v == Items[idx].val IN
         IF IsModel(v)
           THEN IF RegisterModelRaises(v)
                  THEN /\ pc' = "failed"
                       /\ err' = ErrNoName
                       /\ UNCHANGED <<repos, log, lastWrite, idx>>
                  ELSE /\ repos' = register_model(repos, v)
                       /\ lastWrite' = [lastWrite EXCEPT ![ModelName(v)] = v]
                       /\ log' = Append(log, Ev("register", ModelName(v), v))
                       /\ pc' = "list_setflag"
                       /\ err' = err
                       /\ idx' = idx
           ELSE /\ pc' = "list_loop"
                /\ idx' = idx + 1
                /\ err' = err
                /\ UNCHANGED <<repos, log, lastWrite>>
    /\ UNCHANGED <<enable_latency_logging, workers, registered_models, modelEll,
                   server, app, models, handle, lastReq, regAtStart>>
    /\ UNCHANGED outerVars

\* One pass of "for model in models" up to and including register_model(model).
ListRegister ==
    /\ pc = "list_loop"
    /\ idx <= Len(Items)
    /\ LET v == Items[idx].val IN
         IF IsModel(v)
           THEN IF RegisterModelRaises(v)
                  THEN /\ pc' = "failed"
                       /\ err' = ErrNoName
                       /\ UNCHANGED <<repos, log, lastWrite>>
                  ELSE /\ repos' = register_model(repos, v)
                       /\ lastWrite' = [lastWrite EXCEPT ![ModelName(v)] = v]
                       /\ log' = Append(log, Ev("register", ModelName(v), v))
                       /\ pc' = "list_setflag"
                       /\ err' = err
           ELSE /\ pc' = "failed"
                /\ err' = ErrNotModel
                /\ UNCHANGED <<repos, log, lastWrite>>
    /\ UNCHANGED <<enable_latency_logging, workers, registered_models, modelEll,
                   server, app, models, idx, handle, lastReq, regAtStart>>
    /\ UNCHANGED outerVars

\* The loop pass as it would be without the assignment of the flag.
ListSetFlag_Skip ==
    /\ pc = "list_setflag"
    /\ idx' = idx + 1
    /\ pc' = "list_loop"
    /\ UNCHANGED <<enable_latency_logging, workers, registered_models, repos,
                   modelEll, server, app, models, handle, err, log, lastReq,
                   regAtStart, lastWrite>>
    /\ UNCHANGED outerVars

\* model.enable_latency_logging = self.enable_latency_logging
ListSetFlag ==
    /\ pc = "list_setflag"
    /\ modelEll' = [modelEll EXCEPT ![Items[idx].val] = enable_latency_logging]
    /\ idx' = idx + 1
    /\ pc' = "list_loop"
    /\ UNCHANGED <<enable_latency_logging, workers, registered_models, repos,
                   server, app, models, handle, err, log, lastReq, regAtStart,
                   lastWrite>>
    /\ UNCHANGED outerVars

\* serve.start(detached=True, ...)
ServeStart ==
    /\ pc = "serve_start"
    /\ log' = Append(log, Ev("serve.start", "", RayServePort))
    /\ pc' = "dict_loop"
    /\ UNCHANGED <<enable_latency_logging, workers, registered_models, repos,
                   modelEll, server, app, models, idx, handle, err, lastReq,
                   regAtStart, lastWrite>>
    /\ UNCHANGED outerVars

\* models[key].deploy()
DictDeploy ==
    /\ pc = "dict_loop"
    /\ idx <= Len(Items)
    /\ log' = Append(log, Ev("deploy", Items[idx].key, Items[idx].val))
    /\ pc' = "dict_get_handle"
    /\ UNCHANGED <<enable_latency_logging, workers, registered_models, repos,
                   modelEll, server, app, models, idx, handle, err, lastReq,
                   regAtStart, lastWrite>>
    /\ UNCHANGED outerVars

\* handle = models[key].get_handle()
DictGetHandle ==
    /\ pc = "dict_get_handle"
    /\ handle' = RemoteHandle(Items[idx].val)
    /\ log' = Append(log, Ev("get_handle", Items[idx].key, Items[idx].val))
    /\ pc' = "dict_register"
    /\ UNCHANGED <<enable_latency_logging, workers, registered_models, repos,
                   modelEll, server, app, models, idx, err, lastReq, regAtStart,
                   lastWrite>>
    /\ UNCHANGED outerVars

\* self.register_model_handle(key, handle)
DictRegister ==
    /\ pc = "dict_register"
    /\ repos' = register_model_handle(repos, Items[idx].key, handle)
    /\ lastWrite' = [lastWrite EXCEPT ![Items[idx].key] = handle]
    /\ log' = Append(log, Ev("register_handle", Items[idx].key, handle))
    /\ idx' = idx + 1
    /\ pc' = "dict_loop"
    /\ UNCHANGED <<enable_latency_logging, workers, registered_models, modelEll,
                   server, app, models, handle, err, lastReq, regAtStart>>
    /\ UNCHANGED outerVars

\* The loop as it would be if it were left after its first pass.
LoopExit_Early ==
    /\ pc \in {"list_loop", "dict_loop"}
    /\ idx > 1
    /\ pc' = "create_app"
    /\ UNCHANGED <<enable_latency_logging, workers, registered_models, repos,
                   modelEll, server, app, models, idx, handle, err, log, lastReq,
                   regAtStart, lastWrite>>
    /\ UNCHANGED outerVars

\* The for loop of either branch is exhausted.
LoopExit ==
    /\ pc \in {"list_loop", "dict_loop"}
    /\ idx > Len(Items)
    /\ pc' = "create_app"
    /\ UNCHANGED <<enable_latency_logging, workers, registered_models, repos,
                   modelEll, server, app, models, idx, handle, err, log, lastReq,
                   regAtStart, lastWrite>>
    /\ UNCHANGED outerVars

\* cfg = uvicorn.Config(self.create_application(), ...);
\* self._server = uvicorn.Server(cfg)
CreateApp ==
    /\ pc = "create_app"
    /\ app' = create_application
    /\ server' = "created"
    /\ log' = Append(log, Ev("create_application", "", 0))
    /\ pc' = "serve"
    /\ UNCHANGED <<enable_latency_logging, workers, registered_models, repos,
                   modelEll, models, idx, handle, err, lastReq, regAtStart,
                   lastWrite>>
    /\ UNCHANGED outerVars

\* The last lines of start() as they would be without the await: the listener
\* is started and start() returns at once.
Serve_NoAwait ==
    /\ pc = "serve"
    /\ server' = "serving"
    /\ log' = Append(log, Ev("serve", "", http_port))
    /\ pc' = "done"
    /\ UNCHANGED <<enable_latency_logging, workers, registered_models, repos,
                   modelEll, app, models, idx, handle, err, lastReq, regAtStart,
                   lastWrite>>
    /\ UNCHANGED outerVars

\* servers = [self._server.serve()]; await asyncio.gather(*servers)
Serve ==
    /\ pc = "serve"
    /\ server' = "serving"
    /\ log' = Append(log, Ev("serve", "", http_port))
    /\ pc' = "listening"
    /\ UNCHANGED <<enable_latency_logging, workers, registered_models, repos,
                   modelEll, app, models, idx, handle, err, lastReq, regAtStart,
                   lastWrite>>
    /\ UNCHANGED outerVars

\* The listener terminates and the await of start() returns.
Shutdown ==
    /\ pc = "listening"
    /\ server' = "exited"
    /\ pc' = "done"
    /\ UNCHANGED <<enable_latency_logging, workers, registered_models, repos,
                   modelEll, app, models, idx, handle, err, log, lastReq,
                   regAtStart, lastWrite>>
    /\ UNCHANGED outerVars

\* ------------------------------------------- direct registration calls
\* register_model(model) called by the embedding program while the server runs.
RegisterModelCall(id) ==
    /\ pc = "listening"
    /\ IF RegisterModelRaises(id)
         THEN /\ lastReq' = Req("register", ModelName(id), "Error")
              /\ UNCHANGED <<repos, lastWrite>>
         ELSE /\ repos' = register_model(repos, id)
              /\ lastWrite' = [lastWrite EXCEPT ![ModelName(id)] = id]
              /\ lastReq' = Req("register", ModelName(id), "OK")
    /\ UNCHANGED <<enable_latency_logging, workers, registered_models, modelEll,
                   server, app, pc, models, idx, handle, err, log, regAtStart>>
    /\ UNCHANGED outerVars

\* register_model_handle(name, handle) called by the embedding program while
\* the server runs.
RegisterHandleCall(n, h) ==
    /\ pc = "listening"
    /\ repos' = register_model_handle(repos, n, h)
    /\ lastWrite' = [lastWrite EXCEPT ![n] = h]
    /\ lastReq' = Req("register", n, "OK")
    /\ UNCHANGED <<enable_latency_logging, workers, registered_models, modelEll,
                   server, app, pc, models, idx, handle, err, log, regAtStart>>
    /\ UNCHANGED outerVars

\* ------------------------------------- requests served by the listener
\* The error classes create_application() registers a handler for.
ErrorKinds == {"InvalidInput", "InferenceError", "ModelNotFound", "ModelNotReady"}

\* exception_handlers as it would be without the entry of ModelNotFound.
exception_handlers_NoNotFound ==
    [k \in {"InvalidInput", "InferenceError", "ModelNotReady", "Exception"} |->
        CASE k = "InvalidInput"   -> "invalid_input_handler"
          [] k = "InferenceError" -> "inference_error_handler"
          [] k = "ModelNotReady"  -> "model_not_ready_handler"
          [] OTHER                -> "exception_handler"]

\* The exception_handlers argument of FastAPI(...).
exception_handlers ==
    [k \in ErrorKinds \cup {"Exception"} |->
        CASE k = "InvalidInput"   -> "invalid_input_handler"
          [] k = "InferenceError" -> "inference_error_handler"
          [] k = "ModelNotFound"  -> "model_not_found_handler"
          [] k = "ModelNotReady"  -> "model_not_ready_handler"
          [] OTHER                -> "exception_handler"]

\* The handler the application picks for a raised error: the one of its own
\* class when there is one, else the one of its base class Exception.
HandlerFor(raised) ==
    IF raised \in DOMAIN exception_handlers
      THEN exception_handlers[raised]
      ELSE exception_handlers["Exception"]

\* The response each handler of kserve.errors builds.
HandlerResponse(h) ==
    CASE h = "invalid_input_handler"   -> "InvalidInput"
      [] h = "inference_error_handler" -> "InferenceError"
      [] h = "model_not_found_handler" -> "ModelNotFound"
      [] h = "model_not_ready_handler" -> "ModelNotReady"
      [] OTHER                         -> "ServerError"

\* What a predict for name n raises when worker w serves it and the resolved
\* backend, once invoked, ends in outcome ("none": nothing is raised).
PredictRaises(w, n, outcome) ==
    IF Lookup(repos, WorkerApp(w).dataplane, n) = NoModel
      THEN "ModelNotFound"
      ELSE IF outcome = "OK" THEN "none" ELSE outcome

\* What a predict for name n answers when worker w serves it and the resolved
\* backend, once invoked, ends in outcome.
PredictResult(w, n, outcome) ==
    IF PredictRaises(w, n, outcome) = "none"
      THEN "OK"
      ELSE HandlerResponse(HandlerFor(PredictRaises(w, n, outcome)))

\* POST /v1/models/{n}:predict on worker w.
Predict(w, n, outcome) ==
    /\ pc = "listening"
    /\ w <= workers
    /\ lastReq' = [Req("predict", n, PredictResult(w, n, outcome))
                      EXCEPT !.raised = PredictRaises(w, n, outcome)]
    /\ UNCHANGED <<enable_latency_logging, workers, registered_models, repos,
                   modelEll, server, app, pc, models, idx, handle, err, log,
                   regAtStart, lastWrite>>
    /\ UNCHANGED outerVars

\* A request to /v2/repository/models/{n}/load on worker w; resolved tells whether
\* the model definition could be resolved and constructed.
Load(w, n, resolved) ==
    /\ pc = "listening"
    /\ w <= workers
    /\ IF resolved
         THEN /\ repos' = update_handle(repos, WorkerApp(w).extension, n, LoadedHandle(n))
              /\ lastWrite' = [lastWrite EXCEPT ![n] = LoadedHandle(n)]
              /\ lastReq' = Req("load", n, "OK")
         ELSE /\ lastReq' = Req("load", n, "Failed")
              /\ UNCHANGED <<repos, lastWrite>>
    /\ UNCHANGED <<enable_latency_logging, workers, registered_models, modelEll,
                   server, app, pc, models, idx, handle, err, log, regAtStart>>
    /\ UNCHANGED outerVars

\* A request to /v2/repository/models/{n}/unload on worker w.
Unload(w, n) ==
    /\ pc = "listening"
    /\ w <= workers
    /\ IF Lookup(repos, WorkerApp(w).extension, n) # NoModel
         THEN /\ repos' = Unregister(repos, WorkerApp(w).extension, n)
              /\ lastWrite' = [lastWrite EXCEPT ![n] = NoModel]
              /\ lastReq' = Req("unload", n, "OK")
         ELSE /\ lastReq' = Req("unload", n, "ModelNotFound")
              /\ UNCHANGED <<repos, lastWrite>>
    /\ UNCHANGED <<enable_latency_logging, workers, registered_models, modelEll,
                   server, app, pc, models, idx, handle, err, log, regAtStart>>
    /\ UNCHANGED outerVars

BackendOutcomes == {"OK", "InferenceError"}

\* The steps of the coroutine start(): it does not suspend before the final
\* await, so once called it runs on to the listener or to its raise.
StartStep ==
    \/ ListRegister
    \/ ListSetFlag
    \/ ServeStart
    \/ DictDeploy
    \/ DictGetHandle
    \/ DictRegister
    \/ LoopExit
    \/ CreateApp
    \/ Serve

Next ==
    \/ \E m \in Collections : Start(m)
    \/ StartStep
    \/ Shutdown
    \/ \E id \in ModelIds : RegisterModelCall(id)
    \/ \E n \in ModelNames, d \in DepIds : RegisterHandleCall(n, RemoteHandle(d))
    \/ \E w \in WorkerIds, n \in ModelNames, o \in BackendOutcomes : Predict(w, n, o)
    \/ \E w \in WorkerIds, n \in ModelNames, r \in BOOLEAN : Load(w, n, r)
    \/ \E w \in WorkerIds, n \in ModelNames : Unload(w, n)

Spec == Init /\ [][Next]_vars

\* -------------------------------------- the gateway's error translation
\* How the handling of a request can end once its model is resolved: it
\* returns, or raises one of the gateway's error classes or some other
\* exception.
AllOutcomes == BackendOutcomes \cup {"InvalidInput", "ModelNotReady", "KeyError"}

\* A server run with the defaults of the command line.
GatewayInit ==
    /\ Constructed
    /\ enable_latency_logging = FALSE
    /\ workers = 1
    /\ http_port = DEFAULT_HTTP_PORT
    /\ grpc_port = DEFAULT_GRPC_PORT
    /\ PureIdle

GatewayNext ==
    \/ \E m \in Collections : Start(m)
    \/ StartStep
    \/ Shutdown
    \/ \E w \in WorkerIds, n \in ModelNames, o \in AllOutcomes : Predict(w, n, o)
    \/ \E w \in WorkerIds, n \in ModelNames, r \in BOOLEAN : Load(w, n, r)
    \/ \E w \in WorkerIds, n \in ModelNames : Unload(w, n)

\* The server with requests that end in every kind of error.
GatewaySpec == GatewayInit /\ [][GatewayNext]_vars

\* ------------------------------------------ the server and its set-up
\* The registry of a ModelServer instance.
RegisteredNames(rs, r) == {n \in AllNames : Lookup(rs, r, n) # NoModel}

\* ModelServer() is constructed a second time while the first one serves, with
\* no registered_models argument: it gets the ModelRepository the default
\* argument built when the class was defined.
ConstructOther ==
    /\ ~other.made
    /\ pc = "listening"
    /\ other' = [made |-> TRUE, registered_models |-> DefaultRepo]
    /\ UNCHANGED <<enable_latency_logging, workers, registered_models, repos,
                   modelEll, server, app, pc, models, idx, handle, err, log,
                   lastReq, regAtStart, lastWrite, http_port, grpc_port, argv,
                   args, request, routed>>

\* register_model(model) on the second ModelServer.
OtherRegisterModel(id) ==
    /\ other.made
    /\ pc = "listening"
    /\ IF RegisterModelRaises(id)
         THEN /\ lastReq' = Req("other.register", ModelName(id), "Error")
              /\ UNCHANGED <<repos, lastWrite>>
         ELSE /\ repos' = update(repos, other.registered_models, id)
              /\ lastWrite' = IF other.registered_models = registered_models
                                THEN [lastWrite EXCEPT ![ModelName(id)] = id]
                                ELSE lastWrite
              /\ lastReq' = Req("other.register", ModelName(id), "OK")
    /\ UNCHANGED <<enable_latency_logging, workers, registered_models, modelEll,
                   server, app, pc, models, idx, handle, err, log, regAtStart,
                   http_port, grpc_port, other, argv, args, request, routed>>

\* The ports a command line can set.
HttpPorts == {DEFAULT_HTTP_PORT, RayServePort}
GrpcPorts == {DEFAULT_GRPC_PORT, RayServePort}

\* Collections whose dict keys may be the empty string.
SetupCollections == Lists \cup DictsOver(AllNames) \cup Others

SetupInit ==
    /\ Constructed
    /\ enable_latency_logging \in BOOLEAN
    /\ workers = 1
    /\ http_port \in HttpPorts
    /\ grpc_port \in GrpcPorts
    /\ PureIdle

SetupNext ==
    \/ \E m \in SetupCollections : Start(m)
    \/ StartStep
    \/ Shutdown
    \/ ConstructOther
    \/ \E id \in ModelIds : OtherRegisterModel(id)
    \/ \E id \in ModelIds : RegisterModelCall(id)

\* One process: its ports, its ModelServer and a second one, start() (which
\* calls register_model and register_model_handle) and register_model called
\* on either server, without the requests.
SetupSpec == SetupInit /\ [][SetupNext]_vars

\* ------------------------------------------------- the command line
UpperChars == <<"A", "B", "C", "D", "E", "F", "G", "H", "I", "J", "K", "L", "M",
                "N", "O", "P", "Q", "R", "S", "T", "U", "V", "W", "X", "Y", "Z">>
LowerChars == <<"a", "b", "c", "d", "e", "f", "g", "h", "i", "j", "k", "l", "m",
                "n", "o", "p", "q", "r", "s", "t", "u", "v", "w", "x", "y", "z">>

\* A string is the sequence of its characters.
LowerChar(c) ==
    IF \E i \in DOMAIN UpperChars : UpperChars[i] = c
      THEN LowerChars[CHOOSE i \in DOMAIN UpperChars : UpperChars[i] = c]
      ELSE c

UpperChar(c) ==
    IF \E i \in DOMAIN LowerChars : LowerChars[i] = c
      THEN UpperChars[CHOOSE i \in DOMAIN LowerChars : LowerChars[i] = c]
      ELSE c

\* str.lower() as it would be if it kept the case.
Lower_Keep(s) == s

\* str.lower()
Lower(s) == [i \in DOMAIN s |-> LowerChar(s[i])]

\* The words strtobool takes for true and for false.
TrueWords ==
    {<<"y">>, <<"y", "e", "s">>, <<"t">>, <<"t", "r", "u", "e">>, <<"o", "n">>, <<"1">>}
FalseWords ==
    {<<"n">>, <<"n", "o">>, <<"f">>, <<"f", "a", "l", "s", "e">>, <<"o", "f", "f">>, <<"0">>}

\* strtobool as it would be if it knew the words true and false only.
strtobool_TrueFalseOnly(val) ==
    LET v == Lower(val)
    IN IF v = <<"t", "r", "u", "e">> THEN [raised |-> FALSE, val |-> 1]
       ELSE IF v = <<"f", "a", "l", "s", "e">> THEN [raised |-> FALSE, val |-> 0]
       ELSE [raised |-> TRUE, val |-> 0]

\* distutils.util.strtobool(val): val is lower-cased; 1 for a true word, 0 for
\* a false word, ValueError for anything else.
strtobool(val) ==
    LET v == Lower(val)
    IN IF v \in TrueWords THEN [raised |-> FALSE, val |-> 1]
       ELSE IF v \in FalseWords THEN [raised |-> FALSE, val |-> 0]
       ELSE [raised |-> TRUE, val |-> 0]

\* args, _ = parser.parse_known_args(), for --enable_latency_logging: without
\* the option args has the default False, which is not converted; with it the
\* value goes through bool(strtobool(x)), and a ValueError of the conversion
\* makes the parser report the error and exit.
ParseArgs ==
    /\ args = NoArgs
    /\ args' = IF ~argv.given
                 THEN [parsed |-> TRUE, error |-> FALSE, enable_latency_logging |-> FALSE]
                 ELSE LET r == strtobool(argv.flag)
                      IN IF r.raised
                           THEN [parsed |-> FALSE, error |-> TRUE,
                                 enable_latency_logging |-> FALSE]
                           ELSE [parsed |-> TRUE, error |-> FALSE,
                                 enable_latency_logging |-> (r.val # 0)]
    /\ UNCHANGED <<enable_latency_logging, workers, registered_models, repos,
                   modelEll, server, app, pc, models, idx, handle, err, log,
                   lastReq, regAtStart, lastWrite, http_port, grpc_port, other,
                   argv, request, routed>>

\* Every way of writing a word in upper- and lower-case letters.
RECURSIVE CaseVariants(_)
CaseVariants(w) ==
    IF w = <<>>
      THEN {<<>>}
      ELSE {<<c>> \o r : c \in {LowerChar(Head(w)), UpperChar(Head(w))},
                         r \in CaseVariants(Tail(w))}

\* The words the option is given, in lower case: the words of strtobool and
\* some others.
FlagWords ==
    TrueWords \cup FalseWords \cup
    {<<>>, <<"2">>, <<"1", "0">>, <<"t", "r", "u">>, <<"m", "a", "y", "b", "e">>}

FlagValues == UNION {CaseVariants(w) : w \in FlagWords}

\* A command line without the option, or with the option and a value.
Argvs == {NoArgv} \cup {[given |-> TRUE, flag |-> f] : f \in FlagValues}

ParseInit ==
    /\ Constructed
    /\ enable_latency_logging = FALSE
    /\ workers = 1
    /\ http_port = DEFAULT_HTTP_PORT
    /\ grpc_port = DEFAULT_GRPC_PORT
    /\ argv \in Argvs
    /\ args = NoArgs
    /\ request = NoRequest
    /\ routed = NoRoute

ParseNext == ParseArgs

\* The parsing of the command line.
ParseSpec == ParseInit /\ [][ParseNext]_vars

\* ---------------------------------------------------- the route table
\* A path is the sequence of its pieces: every "/" and the texts between and
\* around them; a path parameter of a route is one piece.
PathParams == {"{model_name}", "{model_version}"}

\* FastAPIRoute(path, endpoint) without methods= serves GET.
DefaultMethods == {"GET"}

FastAPIRoute(path, endpoint, methods) ==
    [path |-> path, endpoint |-> endpoint, methods |-> methods]

\* FastAPI(routes=[...])
routes == <<
    FastAPIRoute(<<"/">>, "dataplane.live", DefaultMethods),
    FastAPIRoute(<<"/", "metrics">>, "metrics_handler", {"GET"}),
    FastAPIRoute(<<"/", "v1", "/", "models">>, "v1_endpoints.models", DefaultMethods),
    FastAPIRoute(<<"/", "v1", "/", "models", "/", "{model_name}">>,
                 "v1_endpoints.model_ready", DefaultMethods),
    FastAPIRoute(<<"/", "v1", "/", "models", "/", "{model_name}", ":predict">>,
                 "v1_endpoints.predict", {"POST"}),
    FastAPIRoute(<<"/", "v1", "/", "models", "/", "{model_name}", ":explain">>,
                 "v1_endpoints.explain", {"POST"}),
    FastAPIRoute(<<"/", "v2">>, "dataplane.metadata", DefaultMethods),
    FastAPIRoute(<<"/", "v2", "/", "health", "/", "live">>, "dataplane.live", DefaultMethods),
    FastAPIRoute(<<"/", "v2", "/", "health", "/", "ready">>, "dataplane.ready", DefaultMethods),
    FastAPIRoute(<<"/", "v2", "/", "models", "/", "{model_name}">>,
                 "dataplane.model_metadata", DefaultMethods),
    FastAPIRoute(<<"/", "v2", "/", "models", "/", "{model_name}", "/", "versions", "/",
                   "{model_version}">>,
                 "dataplane.model_metadata", DefaultMethods),
    FastAPIRoute(<<"/", "v1", "/", "models", "/", "{model_name}", "/", "infer">>,
                 "dataplane.infer", {"POST"}),
    FastAPIRoute(<<"/", "v1", "/", "models", "/", "{model_name}", "/", "versions", "/",
                   "{model_version}", "/", "infer">>,
                 "dataplane.infer", {"POST"}),
    FastAPIRoute(<<"/", "v2", "/", "repository", "/", "models", "/", "{model_name}", "/",
                   "load">>,
                 "model_repository_extension.load", DefaultMethods),
    FastAPIRoute(<<"/", "v2", "/", "repository", "/", "models", "/", "{model_name}", "/",
                   "unload">>,
                 "model_repository_extension.unload", DefaultMethods) >>

\* The whole path matches the pattern of a route: a path parameter stands for
\* one or more pieces none of which is "/", any other piece for itself.
RECURSIVE PathMatches(_, _)
PathMatches(pat, path) ==
    IF pat = <<>> THEN path = <<>>
    ELSE IF path = <<>> THEN FALSE
    ELSE IF Head(pat) \in PathParams
      THEN \E k \in 1..Len(path) :
              /\ \A i \in 1..k : path[i] # "/"
              /\ PathMatches(Tail(pat), SubSeq(path, k + 1, Len(path)))
      ELSE Head(pat) = Head(path) /\ PathMatches(Tail(pat), Tail(path))

\* Route.matches(scope)
Match(route, req) ==
    IF ~PathMatches(route.path, req.path) THEN "NONE"
    ELSE IF req.method \in route.methods THEN "FULL"
    ELSE "PARTIAL"

\* The router takes the first route that matches path and method; without one,
\* a route that matches the path alone answers 405, and no route at all 404.
Dispatched(req) ==
    LET full == {i \in DOMAIN routes : Match(routes[i], req) = "FULL"}
        partial == {i \in DOMAIN routes : Match(routes[i], req) = "PARTIAL"}
    IN IF full # {}
         THEN [status |-> "handled",
               handler |-> routes[CHOOSE i \in full : \A j \in full : i <= j].endpoint]
         ELSE IF partial # {}
           THEN [status |-> "405", handler |-> "none"]
           ELSE [status |-> "404", handler |-> "none"]

\* The routes of the external interface as the design lists them.
Listed(method, path, handler) == [method |-> method, path |-> path, handler |-> handler]

ListedRoutes == {
    Listed("GET", <<"/">>, "dataplane.live"),
    Listed("GET", <<"/", "metrics">>, "metrics_handler"),
    Listed("GET", <<"/", "v1", "/", "models">>, "v1_endpoints.models"),
    Listed("GET", <<"/", "v1", "/", "models", "/", "{model_name}">>, "v1_endpoints.model_ready"),
    Listed("POST", <<"/", "v1", "/", "models", "/", "{model_name}", ":predict">>,
           "v1_endpoints.predict"),
    Listed("POST", <<"/", "v1", "/", "models", "/", "{model_name}", ":explain">>,
           "v1_endpoints.explain"),
    Listed("GET", <<"/", "v2">>, "dataplane.metadata"),
    Listed("GET", <<"/", "v2", "/", "health", "/", "live">>, "dataplane.live"),
    Listed("GET", <<"/", "v2", "/", "health", "/", "ready">>, "dataplane.ready"),
    Listed("GET", <<"/", "v2", "/", "models", "/", "{model_name}">>, "dataplane.model_metadata"),
    Listed("GET", <<"/", "v2", "/", "models", "/", "{model_name}", "/", "versions", "/",
                    "{model_version}">>,
           "dataplane.model_metadata"),
    Listed("POST", <<"/", "v1", "/", "models", "/", "{model_name}", "/", "infer">>,
           "dataplane.infer"),
    Listed("POST", <<"/", "v1", "/", "models", "/", "{model_name}", "/", "infer", "/",
                     "versions", "/", "{model_version}">>,
           "dataplane.infer"),
    Listed("POST", <<"/", "v2", "/", "repository", "/", "models", "/", "{model_name}", "/",
                     "load">>,
           "model_repository_extension.load"),
    Listed("POST", <<"/", "v2", "/", "repository", "/", "models", "/", "{model_name}", "/",
                     "unload">>,
           "model_repository_extension.unload") }

\* A pattern with a name and a version in the place of its parameters.
Fill(pat, n, v) ==
    [i \in DOMAIN pat |->
        IF pat[i] = "{model_name}" THEN n
        ELSE IF pat[i] = "{model_version}" THEN v
        ELSE pat[i]]

Methods == {"GET", "POST", "DELETE"}
Versions == {"v1"}

\* Paths without a trailing "/": those of the routes, of the listed routes,
\* and one that belongs to neither.
Paths ==
    {Fill(p, n, v) : p \in {routes[i].path : i \in DOMAIN routes}
                           \cup {l.path : l \in ListedRoutes}
                           \cup {<<"/", "nope">>},
                     n \in ModelNames, v \in Versions}

Requests == [method : Methods, path : Paths]

\* The application answers the request.
Dispatch ==
    /\ request # NoRequest
    /\ routed = NoRoute
    /\ routed' = Dispatched(request)
    /\ UNCHANGED <<enable_latency_logging, workers, registered_models, repos,
                   modelEll, server, app, pc, models, idx, handle, err, log,
                   lastReq, regAtStart, lastWrite, http_port, grpc_port, other,
                   argv, args, request>>

RouteInit ==
    /\ Constructed
    /\ enable_latency_logging = FALSE
    /\ workers = 1
    /\ http_port = DEFAULT_HTTP_PORT
    /\ grpc_port = DEFAULT_GRPC_PORT
    /\ argv = NoArgv
    /\ args = NoArgs
    /\ request \in Requests
    /\ routed = NoRoute

RouteNext == Dispatch

\* The routing of one request by the application.
RouteSpec == RouteInit /\ [][RouteNext]_vars

FairSpec == Spec /\ WF_vars(StartStep)

\* ================================================================ claims
IsListColl == models.type = "list"
IsDictColl == models.type = "dict"

\* The collection start() was given is mixed or of an unknown type.
BadCollection ==
    \/ IsListColl /\ \E i \in DOMAIN Items : ~IsModel(Items[i].val)
    \/ IsDictColl /\ ~AllDeployments
    \/ models.type = "other"

StartErrors == {ErrNotModel, ErrNotDeployment, ErrUnknown, ErrNoName}
MixedErrors == {ErrNotModel, ErrNotDeployment, ErrUnknown}

LogIdx(e) == {i \in DOMAIN log : log[i].ev = e}

\* C1: when start() is given a mixed collection (a list with an element that
\* is not a Model, a dict with a value that is not a Deployment) or one that
\* is neither list nor dict, it ends by raising, and in that run no application
\* is built and no listener is created or started.
C1_BadCollectionNoListener ==
    /\ [](BadCollection =>
            /\ server = "None"
            /\ ~app.built
            /\ LogIdx("serve") = {}
            /\ pc \in {"list_loop", "list_setflag", "failed"}
            /\ (pc = "failed" => err \in StartErrors))
    /\ (BadCollection ~> (pc = "failed" /\ server = "None"))

\* A mixed list whose non-Model element follows a Model has made start() fail.
C1_Witness ==
    /\ pc = "failed"
    /\ err = ErrNotModel
    /\ IsListColl
    /\ idx = 2
    /\ server = "None"

\* C2: when start() fails with the mixed-collection error the registry holds
\* exactly the entries it held when start() was called.
C2_FailedStartKeepsRegistry ==
    (pc = "failed" /\ err \in MixedErrors) => repos[registered_models] = regAtStart

\* C3: serve.start() is called at most once, only for a dict of Deployments
\* and before any deploy(); for every key deploy() precedes get_handle(), which
\* precedes the registration of that handle under that key; when the loop is
\* over the runtime has been started exactly once and every key maps to the
\* handle of its Deployment.
C3_RemoteOrder ==
    /\ Cardinality(LogIdx("serve.start")) <= 1
    /\ LogIdx("serve.start") # {} => IsDictColl /\ AllDeployments
    /\ \A j \in LogIdx("deploy") : \E i \in LogIdx("serve.start") : i < j
    /\ \A j \in LogIdx("get_handle") :
          \E i \in LogIdx("deploy") :
             i < j /\ log[i].key = log[j].key /\ log[i].val = log[j].val
    /\ \A j \in LogIdx("register_handle") :
          \E i \in LogIdx("get_handle") :
             i < j /\ log[i].key = log[j].key /\ log[j].val = RemoteHandle(log[i].val)
    /\ (IsDictColl /\ pc \in {"create_app", "serve"}) =>
          /\ Cardinality(LogIdx("serve.start")) = 1
          /\ \A k \in DOMAIN Items :
                /\ Lookup(repos, registered_models, Items[k].key) = RemoteHandle(Items[k].val)
                /\ \E j \in LogIdx("register_handle") : log[j].key = Items[k].key

\* A dict of two Deployments has been deployed and registered.
C3_Witness ==
    /\ IsDictColl
    /\ pc = "create_app"
    /\ Len(Items) = 2
    /\ Cardinality(LogIdx("register_handle")) = 2

\* A list of Models that all have a non-empty name.
LocalCollection ==
    /\ IsListColl
    /\ \A i \in DOMAIN Items : IsModel(Items[i].val) /\ ModelName(Items[i].val) # ""

\* The step of start() that starts the listener.
ListenerStarts == pc = "serve" /\ pc' = "listening"

\* The last model of the list that has name n.
LastWithName(n) ==
    LET I == {i \in DOMAIN Items : ModelName(Items[i].val) = n}
    IN Items[CHOOSE i \in I : \A j \in I : j <= i].val

\* C4 as stated: for a list of Models with non-empty names, when the listener
\* is started every model of the list is the registry's entry of its name and
\* its enable_latency_logging equals the server's flag.
C4_EveryModelRegistered ==
    [][(ListenerStarts /\ LocalCollection) =>
          \A i \in DOMAIN Items :
             /\ Lookup(repos', registered_models', ModelName(Items[i].val)) = Items[i].val
             /\ modelEll'[Items[i].val] = enable_latency_logging']_vars

\* C4, amended: for a list of Models with non-empty names start() reaches the
\* start of the listener, and at that step the name of every model of the list
\* is registered and maps to the last model of the list that has that name,
\* and every model of the list has enable_latency_logging equal to the
\* server's flag.
C4_LocalPopulated ==
    /\ ((pc = "list_loop" /\ LocalCollection) ~> (pc = "listening"))
    /\ [][(ListenerStarts /\ LocalCollection) =>
            \A i \in DOMAIN Items :
               /\ Lookup(repos', registered_models', ModelName(Items[i].val))
                     = LastWithName(ModelName(Items[i].val))
               /\ modelEll'[Items[i].val] = enable_latency_logging']_vars

\* The listener has just been started for a list of two distinct models of
\* one name, with a server flag that differs from what the models came with.
C4_Witness ==
    /\ pc = "listening"
    /\ lastReq = NoReq
    /\ LocalCollection
    /\ Len(Items) = 2
    /\ Items[1].val # Items[2].val
    /\ ModelName(Items[1].val) = ModelName(Items[2].val)
    /\ enable_latency_logging # ModelEll0(Items[1].val)
    /\ modelEll[Items[1].val] = enable_latency_logging

RegisterEvents == LogIdx("register") \cup LogIdx("register_handle")

\* C5: every registration of start() precedes the building of the route
\* table, which precedes the start of the listener; when the route table is
\* built every element of the collection has been registered, and a listener
\* exists only once the route table is built.
C5_PopulateBuildListen ==
    /\ \A i \in RegisterEvents : \A j \in LogIdx("create_application") : i < j
    /\ \A j \in LogIdx("serve") : \E i \in LogIdx("create_application") : i < j
    /\ app.built <=> LogIdx("create_application") # {}
    /\ app.built =>
          /\ Cardinality(RegisterEvents) = Len(Items)
          /\ \A k \in DOMAIN Items :
                \E i \in RegisterEvents :
                   /\ log[i].key = (IF IsListColl THEN ModelName(Items[k].val) ELSE Items[k].key)
                   /\ log[i].val = (IF IsListColl THEN Items[k].val ELSE RemoteHandle(Items[k].val))
    /\ server # "None" => app.built
    /\ server \in {"serving", "exited"} <=> LogIdx("serve") # {}

\* The listener serves a collection of two elements.
C5_Witness ==
    /\ server = "serving"
    /\ Len(Items) = 2
    /\ Len(log) >= 4

\* C6: a Model that a lookup can find in the registry never has its
\* enable_latency_logging changed.
C6_PublishedUnchanged ==
    [][\A id \in ModelIds :
          (\E n \in AllNames : Lookup(repos, registered_models, n) = id)
             => modelEll'[id] = modelEll[id]]_vars

\* C7: the application dispatches on the server's registry: right after a
\* successful load of a name a predict for it is resolved on every worker,
\* right after an unload it answers ModelNotFound, a predict answers
\* ModelNotFound exactly when the server's registry has no entry for the name,
\* and when the listener starts every name start() registered is resolved.
C7_SharedRegistry ==
    /\ (lastReq.op = "load" /\ lastReq.res = "OK") =>
          \A w \in 1..workers : \A o \in {"OK", "InferenceError"} :
             PredictResult(w, lastReq.name, o) = o
    /\ lastReq.op = "unload" =>
          \A w \in 1..workers : PredictResult(w, lastReq.name, "OK") = "ModelNotFound"
    /\ lastReq.op = "predict" =>
          (lastReq.res = "ModelNotFound"
             <=> Lookup(repos, registered_models, lastReq.name) = NoModel)
    /\ (pc = "listening" /\ lastReq = NoReq) =>
          \A i \in RegisterEvents : \A w \in 1..workers :
             PredictResult(w, log[i].key, "OK") = "OK"

\* A predict has succeeded for a name that a lifecycle load registered.
C7_Witness ==
    /\ lastReq = Req("predict", "a", "OK")
    /\ Lookup(repos, registered_models, "a") = LoadedHandle("a")

\* C8: the registry's entry of every name is the handle of the latest
\* registration of that name (none after an unregister); after start() has
\* registered a list, a name several models share maps to the last of them.
C8_LastWriterWins ==
    /\ \A n \in AllNames : Lookup(repos, registered_models, n) = lastWrite[n]
    /\ (pc \in {"create_app", "serve"} /\ LocalCollection) =>
          \A i \in DOMAIN Items :
             Lookup(repos, registered_models, ModelName(Items[i].val))
                = LastWithName(ModelName(Items[i].val))

\* register_model has replaced the entry start() had made for the same name.
C8_Witness ==
    /\ lastReq = Req("register", "a", "OK")
    /\ \E i \in LogIdx("register") :
          /\ log[i].key = "a"
          /\ log[i].val # Lookup(repos, registered_models, "a")
    /\ Lookup(repos, registered_models, "a") \in ModelIds

C11_ErrorsTranslated ==
    /\ [](lastReq.op = "predict" =>
            /\ lastReq.raised = "none" => lastReq.res = "OK"
            /\ lastReq.raised \in ErrorKinds => lastReq.res = lastReq.raised
            /\ lastReq.raised \notin ErrorKinds \cup {"none"} => lastReq.res = "ServerError"
            /\ Lookup(repos, registered_models, lastReq.name) = NoModel
                  => lastReq.res = "ModelNotFound")
    /\ [][(lastReq' # lastReq /\ lastReq'.op = "predict") =>
            /\ pc' = "listening"
            /\ server' = "serving"
            /\ repos' = repos
            /\ \A n \in ModelNames : PredictResult(1, n, "OK")' = PredictResult(1, n, "OK")]_vars

\* A predict for a name that is not registered has been answered ModelNotFound
\* and the listener is still serving.
C11_Witness ==
    /\ lastReq.op = "predict"
    /\ lastReq.raised = "ModelNotFound"
    /\ lastReq.res = "ModelNotFound"
    /\ Lookup(repos, registered_models, lastReq.name) = NoModel
    /\ pc = "listening"
    /\ server = "serving"

\* C12: whatever http_port and grpc_port are, the port the
\* remote-actor runtime was started on differs from the port the HTTP listener
\* is configured with.
C12_AdminPortDistinct ==
    \A i \in LogIdx("serve.start") : server # "None" => log[i].val # http_port

\* C13: every request whose method and path are those of a route of the
\* external interface (load and unload on POST /v2/repository/models/{name}/load
\* and /unload, predict and explain on POST /v1/models/{name}:predict and
\* :explain, infer on POST /v1/models/{name}/infer with the optional
\* /versions/{version} suffix, and the others) is dispatched to the handler
\* of that route and to no other.
C13_RoutesAsListed ==
    routed # NoRoute =>
       \A l \in ListedRoutes :
          (request.method = l.method /\ PathMatches(l.path, request.path))
             => routed = [status |-> "handled", handler |-> l.handler]

\* C14: start() has returned only if the listener it started has terminated;
\* while the listener serves start() is blocked; and the one listener it
\* starts is the HTTP listener on http_port.
C14_StartBlocks ==
    /\ pc = "done" => server = "exited"
    /\ server = "serving" => pc = "listening"
    /\ server \in {"serving", "exited"} =>
          /\ Cardinality(LogIdx("serve")) = 1
          /\ \A j \in LogIdx("serve") : log[j].val = http_port

\* start() has returned after its listener, on a port other than the default,
\* terminated.
C14_Witness ==
    /\ pc = "done"
    /\ server = "exited"
    /\ http_port # DEFAULT_HTTP_PORT

\* The string s equals the word w case-insensitively.
EqualsIgnoringCase(s, w) == s \in CaseVariants(w)

FlagDone == argv.given /\ args # NoArgs

\* C15 as stated: the option accepts exactly the strings that equal "true" or
\* "false" case-insensitively, as True and False, and rejects every other
\* string with a configuration error.
C15_ExactlyTrueFalse ==
    FlagDone =>
       /\ EqualsIgnoringCase(argv.flag, <<"t", "r", "u", "e">>)
             => args.parsed /\ args.enable_latency_logging
       /\ EqualsIgnoringCase(argv.flag, <<"f", "a", "l", "s", "e">>)
             => args.parsed /\ ~args.enable_latency_logging
       /\ (~EqualsIgnoringCase(argv.flag, <<"t", "r", "u", "e">>)
             /\ ~EqualsIgnoringCase(argv.flag, <<"f", "a", "l", "s", "e">>))
             => args.error /\ ~args.parsed

\* C15, amended: the option accepts exactly the strings that equal,
\* case-insensitively, one of y, yes, t, true, on, 1 (as True) or one of n, no,
\* f, false, off, 0 (as False), and rejects every other string with a
\* configuration error.
C15_StrtoboolWords ==
    FlagDone =>
       /\ (\E w \in TrueWords : EqualsIgnoringCase(argv.flag, w))
             => args.parsed /\ ~args.error /\ args.enable_latency_logging
       /\ (\E w \in FalseWords : EqualsIgnoringCase(argv.flag, w))
             => args.parsed /\ ~args.error /\ ~args.enable_latency_logging
       /\ (\A w \in TrueWords \cup FalseWords : ~EqualsIgnoringCase(argv.flag, w))
             => args.error /\ ~args.parsed

\* The option was given as "Yes" and args has it as True.
C15_Witness ==
    /\ argv.given
    /\ argv.flag = <<"Y", "e", "s">>
    /\ args.parsed
    /\ args.enable_latency_logging

\* C16: "true" and "True" are accepted as enabled, "false" and "False" as
\* disabled, "maybe" is rejected with a configuration error, and without the
\* option the flag is disabled.
C16_FlagExamples ==
    args # NoArgs =>
       /\ ~argv.given => args.parsed /\ ~args.enable_latency_logging
       /\ (argv.given /\ argv.flag \in {<<"t", "r", "u", "e">>, <<"T", "r", "u", "e">>})
             => args.parsed /\ args.enable_latency_logging
       /\ (argv.given /\ argv.flag \in {<<"f", "a", "l", "s", "e">>, <<"F", "a", "l", "s", "e">>})
             => args.parsed /\ ~args.enable_latency_logging
       /\ (argv.given /\ argv.flag = <<"m", "a", "y", "b", "e">>)
             => args.error /\ ~args.parsed

\* The option was given as "True" and args has it enabled.
C16_Witness ==
    /\ argv.given
    /\ argv.flag = <<"T", "r", "u", "e">>
    /\ args.parsed
    /\ args.enable_latency_logging

\* C17: a ModelServer constructed without a registered_models argument has a
\* registry of zero entries, and a register_model on it changes the result of
\* no lookup on the first ModelServer.
C17_OwnRegistry ==
    [][/\ (~other.made /\ other'.made)
            => RegisteredNames(repos', other'.registered_models) = {}
       /\ (lastReq' # lastReq /\ lastReq'.op = "other.register")
            => \A n \in AllNames :
                  Lookup(repos', registered_models', n) = Lookup(repos, registered_models, n)]_vars

\* C18: the registry never has an entry under the empty name; a register_model
\* that raised for a missing name left the registry as it was, and a start()
\* that raised for it created no listener.
C18_NoEmptyName ==
    /\ Lookup(repos, registered_models, "") = NoModel
    /\ (lastReq.op = "register" /\ lastReq.res = "Error") =>
          /\ lastReq.name = ""
          /\ \A n \in AllNames : Lookup(repos, registered_models, n) = lastWrite[n]
    /\ (pc = "failed" /\ err = ErrNoName) => server = "None" /\ ~app.built

====
